---- MODULE Spec2Model ----
(***************************************************************************)
(* State-machine model of scripts/create_data/tcgcsv_pokemon_pipeline.py:  *)
(* the persisted artifacts under base_dir (the two tracking logs, the raw  *)
(* and enriched day partitions, the groups and products caches, the rollup *)
(* file) and the position of one sequential run of main().                 *)
(*                                                                         *)
(* Data frames are sequences of records (row order matters to keep-first   *)
(* deduplication).  A date is its day ordinal: the code keys partitions by *)
(* the zero-padded string YYYY-MM-DD, whose lexicographic order is the     *)
(* chronological order.  Directory listings (iterdir, rglob) are taken in  *)
(* ascending name order.  A file write is atomic: a process interruption   *)
(* falls between two steps.                                                *)
(***************************************************************************)
EXTENDS Integers, Sequences, FiniteSets, TLC

\* ------------------------------------------------------------------ bounds
\* Last calendar date runs ask for (dates are the day ordinals 1..MaxDate).
MaxDate == 11
\* How many times a run may be interrupted (process kill, uncaught I/O error).
MaxCrashes == 1
\* Longest extendedData list of a product.
MaxExt == 4
\* How many times the products cache file may be deleted between runs.
MaxDeletions == 1

\* keep_days=7 in main's call of prune_old_daily_prices (and its default).
KeepDays == 7

\* ------------------------------------------------------- remote collaborator
\* What the remote holds for each date: no archive (non-200), an archive without
\* the category directory, an archive whose group files give no valid row, or
\* an archive with price rows.
DayKind(day) ==
    CASE day = 2 -> "no_archive"
      [] day = 4 -> "no_category"
      [] day = 6 -> "no_rows"
      [] OTHER   -> "ok"

\* The group directories of a day's category directory, in listing order, each
\* with the state of its prices file and its "results" list.  g9 is a group the
\* Groups table does not know; gx holds a malformed results file.
RemoteDay(day) ==
    IF DayKind(day) = "no_rows"
    THEN << [gid |-> "g1", file |-> "empty",     results |-> << >>],
            [gid |-> "gx", file |-> "malformed", results |-> << >>] >>
    ELSE << [gid |-> "g1", file |-> "ok",
             results |-> << [product_id |-> 1, sub_type_name |-> "Normal", price |-> 10] >>],
            [gid |-> "g2", file |-> "ok",
             results |-> << [product_id |-> 1, sub_type_name |-> "Normal", price |-> 12],
                            [product_id |-> 2, sub_type_name |-> "Foil",   price |-> 20] >>],
            [gid |-> "g9", file |-> "ok",
             results |-> << [product_id |-> 9, sub_type_name |-> "Normal", price |-> 5] >>],
            [gid |-> "gx", file |-> "malformed", results |-> << >>] >>

\* The remote Groups table and each group's products response: the "results"
\* list, each product with its top-level fields and its extendedData list.
RemoteGroups ==
    << [group_id |-> "g1", set_name |-> "Base"],
       [group_id |-> "g2", set_name |-> "Jungle"] >>

RemoteProducts(gid) ==
    CASE gid = "g1" ->
            << [productId |-> 1, name |-> "Pikachu", url |-> "u1",
                extendedData |-> << [name |-> "Attack 1", value |-> "Gnaw"],
                                    [name |-> "HP",       value |-> "40"],
                                    [name |-> "Attack 2", value |-> "Thunder Jolt"],
                                    [name |-> "Attack 3", value |-> "Agility"] >>] >>
      [] gid = "g2" ->
            << [productId |-> 2, name |-> "Eevee", url |-> "u2",
                extendedData |-> << [name |-> "HP",       value |-> "50"],
                                    [name |-> "Attack 1", value |-> "Tail Wag"] >>],
               [productId |-> 2, name |-> "Eevee", url |-> "u2",
                extendedData |-> << [name |-> "HP",       value |-> "50"],
                                    [name |-> "Attack 1", value |-> "Tail Wag"] >>] >>
      [] OTHER      -> << >>

\* ------------------------------------------------------------------ helpers
Range(s) == { s[i] : i \in 1..Len(s) }

Min(a, b) == IF a <= b THEN a ELSE b
Max(a, b) == IF a >= b THEN a ELSE b

\* A file that does not exist, and a file holding a table.
Absent == [exists |-> FALSE, rows |-> << >>]
File(rows) == [exists |-> TRUE, rows |-> rows]

\* The elements of s at the indices in I, in order.
SubSeqAt(s, I) ==
    [k \in 1..Cardinality(I) |->
        s[CHOOSE i \in I : Cardinality({j \in I : j < i}) = k - 1]]

\* The elements of a set of integers as an ascending / descending sequence.
SortedAsc(S) ==
    [k \in 1..Cardinality(S) |->
        CHOOSE x \in S : Cardinality({y \in S : y < x}) = k - 1]
SortedDesc(S) ==
    [k \in 1..Cardinality(S) |->
        CHOOSE x \in S : Cardinality({y \in S : y > x}) = k - 1]

\* Python's s[:k].
PySliceTo(s, k) ==
    IF k >= 0 THEN SubSeq(s, 1, Min(k, Len(s)))
              ELSE SubSeq(s, 1, Max(0, Len(s) + k))

\* pd.concat of the frames of a sequence of frames.
RECURSIVE Concat(_)
Concat(frames) ==
    IF frames = << >> THEN << >> ELSE Head(frames) \o Concat(Tail(frames))

\* The dedup key of a fact row.
Key(row) == << row.product_id, row.date, row.sub_type_name >>

\* drop_duplicates(subset=[product_id, date, sub_type_name], keep="first").
drop_duplicates_key(rows) ==
    SubSeqAt(rows, { i \in 1..Len(rows) :
                       \A j \in 1..(i - 1) : Key(rows[j]) # Key(rows[i]) })

\* drop_duplicates(keep="first") on whole rows.
drop_duplicates(rows) ==
    SubSeqAt(rows, { i \in 1..Len(rows) :
                       \A j \in 1..(i - 1) : rows[j] # rows[i] })

\* ------------------------------------------------------- pure pipeline steps
\* harvest_prices_for_day: the rows of every group directory whose prices file
\* parses and has results, each tagged with the date and the group id.
harvest_prices_for_day(day) ==
    LET dirs  == RemoteDay(day)
        valid == SelectSeq(dirs, LAMBDA g : g.file = "ok" /\ g.results # << >>)
        Frame(g) == [i \in 1..Len(g.results) |->
                        [product_id    |-> g.results[i].product_id,
                         sub_type_name |-> g.results[i].sub_type_name,
                         price         |-> g.results[i].price,
                         date          |-> day,
                         groupid       |-> g.gid]]
    IN  Concat([k \in 1..Len(valid) |-> Frame(valid[k])])

Null == "<null>"

\* The columns dropped from the dimension frames.
PRUNE_COLS ==
    { "url", "image_url", "image_count", "modified_on_x",
      "presale_is_presale", "presale_released_on", "presale_note",
      "modified_on_y", "extended_data", "attack_3", "attack_4", "attack_5" }

\* to_snake on the field names and attribute names the remote uses: a lower-case
\* letter or digit followed by a capital gets "_" between them, every run of
\* other characters becomes "_", outer "_" are stripped, the rest lower-cased.
to_snake(s) ==
    CASE s = "productId" -> "product_id"
      [] s = "Attack 1"  -> "attack_1"
      [] s = "Attack 2"  -> "attack_2"
      [] s = "Attack 3"  -> "attack_3"
      [] s = "Attack"    -> "attack"
      [] s = "HP"        -> "hp"
      [] s = "--"        -> ""
      [] OTHER           -> s

\* key.startswith("attack") on the normalized names.
startswith_attack(key) == key \in {"attack", "attack_1", "attack_2", "attack_3"}

\* f"attack_{attacks_seen}".
attack_key(n) ==
    CASE n = 1 -> "attack_1" [] n = 2 -> "attack_2" [] n = 3 -> "attack_3"
      [] n = 4 -> "attack_4" [] OTHER -> "attack_5"

\* Mutant: no "continue" for the third and later attacks, which are stored
\* under the second slot.
RECURSIVE flatten_extended_overwrites(_, _, _)
flatten_extended_overwrites(ext, attacks_seen, flat) ==
    IF ext = << >> THEN flat
    ELSE LET key == to_snake(Head(ext).name)
             val == Head(ext).value
         IN  IF key = "" THEN flatten_extended_overwrites(Tail(ext), attacks_seen, flat)
             ELSE IF startswith_attack(key)
             THEN flatten_extended_overwrites(Tail(ext), attacks_seen + 1,
                      (attack_key(Min(attacks_seen + 1, 2)) :> val) @@ flat)
             ELSE flatten_extended_overwrites(Tail(ext), attacks_seen, (key :> val) @@ flat)

\* The loop over a product's extendedData: flat after the entries of ext, from
\* the attacks seen so far and the dict built so far.
RECURSIVE flatten_extended(_, _, _)
flatten_extended(ext, attacks_seen, flat) ==
    IF ext = << >> THEN flat
    ELSE LET key == to_snake(Head(ext).name)
             val == Head(ext).value
         IN  IF key = "" THEN flatten_extended(Tail(ext), attacks_seen, flat)
             ELSE IF startswith_attack(key)
             THEN IF attacks_seen + 1 > 2
                  THEN flatten_extended(Tail(ext), attacks_seen + 1, flat)
                  ELSE flatten_extended(Tail(ext), attacks_seen + 1,
                           (attack_key(attacks_seen + 1) :> val) @@ flat)
             ELSE flatten_extended(Tail(ext), attacks_seen, (key :> val) @@ flat)

\* The dict built for one product: its top-level fields under their normalized
\* names, then the entries of its extendedData.
flatten_product(prod) ==
    LET top == DOMAIN prod \ {"presaleInfo", "extendedData"}
        flat == [c \in { to_snake(k) : k \in top } |->
                    prod[CHOOSE k \in top : to_snake(k) = c]]
    IN  flatten_extended(prod.extendedData, 0, flat)

\* A frame's rows over the given columns, a missing value being null.
reindex(rows, columns) ==
    [i \in 1..Len(rows) |->
        [c \in columns |-> IF c \in DOMAIN rows[i] THEN rows[i][c] ELSE Null]]

\* The columns of pd.DataFrame(rows) or of a pd.concat of frames.
Columns(rows) == UNION { DOMAIN rows[i] : i \in 1..Len(rows) }

\* fetch_products_for_group on a response: pd.DataFrame of the products' dicts
\* without the pruned columns.
products_frame(data) ==
    LET rows == [i \in 1..Len(data) |-> flatten_product(data[i])]
    IN  reindex(rows, Columns(rows) \ PRUNE_COLS)

\* fetch_products_for_group followed by df["group_id"] = gid.
fetch_products_for_group(gid) ==
    LET df == products_frame(RemoteProducts(gid))
    IN  reindex([i \in 1..Len(df) |-> ("group_id" :> gid) @@ df[i]],
                Columns(df) \cup {"group_id"})

\* rename(columns={"group_id": "groupid"}) on the two dimension frames.
rename_products(rows) ==
    [i \in 1..Len(rows) |->
        [c \in (DOMAIN rows[i] \ {"group_id"}) \cup {"groupid"} |->
            IF c = "groupid" THEN rows[i].group_id ELSE rows[i][c]]]
rename_groups(rows) ==
    [i \in 1..Len(rows) |->
        [groupid |-> rows[i].group_id, set_name |-> rows[i].set_name]]

\* Mutant: the products join as an inner join (how="inner").
merge_products_inner(left, products) ==
    LET Matches(r) == SelectSeq(products, LAMBDA p :
                          p.groupid = r.groupid /\ p.product_id = r.product_id)
        Out(r, n) == [product_id |-> r.product_id, sub_type_name |-> r.sub_type_name,
                      price |-> r.price, date |-> r.date, groupid |-> r.groupid,
                      name |-> n]
        Joined(r) == [k \in 1..Len(Matches(r)) |-> Out(r, Matches(r)[k].name)]
    IN  Concat([i \in 1..Len(left) |-> Joined(left[i])])

\* day_prices.merge(products_df, on=["groupid", "product_id"], how="left").
merge_products(left, products) ==
    LET Matches(r) == SelectSeq(products, LAMBDA p :
                          p.groupid = r.groupid /\ p.product_id = r.product_id)
        Out(r, n) == [product_id |-> r.product_id, sub_type_name |-> r.sub_type_name,
                      price |-> r.price, date |-> r.date, groupid |-> r.groupid,
                      name |-> n]
        Joined(r) == IF Matches(r) = << >> THEN << Out(r, Null) >>
                     ELSE [k \in 1..Len(Matches(r)) |-> Out(r, Matches(r)[k].name)]
    IN  Concat([i \in 1..Len(left) |-> Joined(left[i])])

\* merged_df.merge(groups_df, on="groupid", how="left").
merge_groups(left, groups) ==
    LET Matches(r) == SelectSeq(groups, LAMBDA g : g.groupid = r.groupid)
        Out(r, n) == [product_id |-> r.product_id, sub_type_name |-> r.sub_type_name,
                      price |-> r.price, date |-> r.date, groupid |-> r.groupid,
                      name |-> r.name, set_name |-> n]
        Joined(r) == IF Matches(r) = << >> THEN << Out(r, Null) >>
                     ELSE [k \in 1..Len(Matches(r)) |-> Out(r, Matches(r)[k].set_name)]
    IN  Concat([i \in 1..Len(left) |-> Joined(left[i])])

\* Mutant: stage 3 without the keyed dedup.
merge_day_no_dedup(day_prices, products, groups) ==
    merge_groups(merge_products(day_prices, products), groups)

\* Stage 3 of main for one day: both left joins, then the keyed dedup.
merge_day(day_prices, products, groups) ==
    drop_duplicates_key(merge_groups(merge_products(day_prices, products), groups))

\* The rows of every partition of a partitioned directory, concatenated.
read_partitions(parts) ==
    LET days == SortedAsc(DOMAIN parts)
    IN  Concat([k \in 1..Len(days) |-> parts[days[k]]])

\* Mutant: the no-op path taken whenever the rollup file exists.
full_file_exists_only(parts, out_file) == out_file.exists

\* Whether build_full_file takes its no-op path: the rollup file exists and its
\* distinct dates are the partition dates.
full_file_up_to_date(parts, out_file) ==
    /\ out_file.exists
    /\ { out_file.rows[i].date : i \in 1..Len(out_file.rows) } = DOMAIN parts

\* Mutant: the partitions sorted oldest first (reverse=True dropped).
prune_keeps_oldest(parts, keep_days) ==
    LET partitions_sorted == SortedAsc(DOMAIN parts)
        keep   == Range(PySliceTo(partitions_sorted, keep_days))
        delete == { p \in DOMAIN parts : p \notin keep }
    IN  [p \in DOMAIN parts \ delete |-> parts[p]]

\* prune_old_daily_prices: the raw partitions left by a pruning that keeps keep_days.
prune_old_daily_prices(parts, keep_days) ==
    LET partitions_sorted == SortedDesc(DOMAIN parts)
        keep   == Range(PySliceTo(partitions_sorted, keep_days))
        delete == { p \in DOMAIN parts : p \notin keep }
    IN  [p \in DOMAIN parts \ delete |-> parts[p]]

\* Mutant: the incremental append without its drop_duplicates.
append_rows_no_dedup(parts, out_file, days) ==
    LET there   == SelectSeq(days, LAMBDA x : x \in DOMAIN parts)
        new_df  == Concat([k \in 1..Len(there) |-> parts[there[k]]])
    IN  IF there = << >> THEN out_file
        ELSE File(out_file.rows \o new_df)

\* append_to_full_file when the rollup file exists: the new rollup, or the old
\* one when no partition of new_days exists.
append_rows(parts, out_file, days) ==
    LET there   == SelectSeq(days, LAMBDA x : x \in DOMAIN parts)
        new_df  == Concat([k \in 1..Len(there) |-> parts[there[k]]])
    IN  IF there = << >> THEN out_file
        ELSE File(drop_duplicates_key(out_file.rows \o new_df))

\* -------------------------------------------------------------------- state
VARIABLES
    processed_days_txt,      \* processed_days.txt: the appended date lines
    processed_products_txt,  \* processed_products.txt: the appended group-id lines
    daily_prices,            \* daily_prices/date=D/part.parquet: date -> raw rows
    daily,                   \* daily/date=D/part.parquet: date -> enriched rows
    groups_parquet,          \* groups.parquet
    products_parquet,        \* products.parquet
    full_parquet,            \* pokemon_prices_with_full_features.parquet
    pc,                      \* position of the run of main ("idle": no run)
    args,                    \* parsed CLI arguments of the run
    d,                       \* build_prices: the candidate date
    processed_days,          \* build_prices: the set loaded at its start
    new_days,                \* build_prices: dates newly processed by the run
    groups_df,               \* build_products_and_groups: the groups frame
    processed_products,      \* build_products_and_groups: the set loaded at its start
    gi,                      \* build_products_and_groups: index into the group ids
    all_products,            \* build_products_and_groups: frames fetched by the run
    products_df,             \* the products frame returned to main
    mi,                      \* main, stage 3: index into new_days
    prev_run,                \* range and interval of the last run, if it ran to its end
    rerun,                   \* the run repeats the range and interval of prev_run
    interrupted,             \* range and interval of the last run, if it was interrupted
    recovering,              \* the run repeats the range and interval of interrupted
    disk0,                   \* the persisted artifacts when the run started
    raw_written,             \* dates whose raw partition was ever written
    fetched,                 \* group ids whose products the run has asked for
    failed,                  \* group ids whose fetch failed in the last run that got to stage 2
    rollup_op,               \* what the last call of the rollup maintainer did
    crashes,                 \* interruptions so far
    deletions,               \* deletions of the products cache file so far
    response,                \* fetch_products_for_group alone: the "results" list
    df                       \* fetch_products_for_group alone: the frame returned

vars == << processed_days_txt, processed_products_txt, daily_prices, daily,
           groups_parquet, products_parquet, full_parquet, pc, args, d,
           processed_days, new_days, groups_df, processed_products, gi,
           all_products, products_df, mi, prev_run, rerun, interrupted,
           recovering, disk0, raw_written, failed,
           fetched, rollup_op, crashes, deletions, response, df >>

\* The persisted artifacts a run leaves behind.
Disk == [processed_days_txt     |-> processed_days_txt,
         processed_products_txt |-> processed_products_txt,
         daily_prices           |-> daily_prices,
         daily                  |-> daily,
         groups_parquet         |-> groups_parquet,
         products_parquet       |-> products_parquet,
         full_parquet           |-> full_parquet]

files == << processed_days_txt, processed_products_txt, daily_prices, daily,
            groups_parquet, products_parquet, full_parquet >>
prices_locals == << d, processed_days, new_days >>
dims_locals == << groups_df, processed_products, gi, all_products, products_df >>
history == << prev_run, rerun, interrupted, recovering, disk0, rollup_op, crashes,
             deletions, failed >>
fetch_io == << response, df >>

\* The empty partitioned directory.
NoPartitions == [x \in {} |-> << >>]

\* The date ranges and intervals runs are started with: a short early range taken
\* every second day, the whole archive daily, and a range with start after end.
RunRanges ==
    { << 1, 3, 2 >>, << 1, MaxDate, 1 >>, << MaxDate, 1, 1 >> }

NoArgs == [start_date |-> 0, end_date |-> 0, interval |-> 0, full_file |-> FALSE]
NoRun == << 0, 0, 0 >>

\* The group ids of the groups frame: groups_df["group_id"].astype(str).unique().
GroupIds(frame) ==
    LET ids == [i \in 1..Len(frame) |-> frame[i].group_id]
    IN  SubSeqAt(ids, { i \in 1..Len(ids) : \A j \in 1..(i - 1) : ids[j] # ids[i] })

\* A fresh base directory, no run started.
Init ==
    /\ processed_days_txt = << >>
    /\ processed_products_txt = << >>
    /\ daily_prices = NoPartitions
    /\ daily = NoPartitions
    /\ groups_parquet = Absent
    /\ products_parquet = Absent
    /\ full_parquet = Absent
    /\ pc = "idle"
    /\ args = NoArgs
    /\ d = 0
    /\ processed_days = {}
    /\ new_days = << >>
    /\ groups_df = << >>
    /\ processed_products = {}
    /\ gi = 0
    /\ all_products = << >>
    /\ products_df = << >>
    /\ mi = 0
    /\ prev_run = NoRun
    /\ rerun = FALSE
    /\ interrupted = NoRun
    /\ recovering = FALSE
    /\ disk0 = Disk
    /\ raw_written = {}
    /\ fetched = {}
    /\ failed = {}
    /\ rollup_op = "none"
    /\ crashes = 0
    /\ deletions = 0
    /\ response = << >>
    /\ df = << >>

\* How a run ends: main returns 0 after the pipeline ("ok") or with no new day
\* ("no_new_days"), an exception escapes main ("aborted"), or the process is
\* interrupted ("crashed").  The process's locals are gone; new_days is kept as
\* the list a run that returned passes to the rollup's incremental append.
EndRun(how) ==
    /\ pc' = "idle"
    /\ prev_run' = IF how = "crashed" THEN NoRun
                   ELSE << args.start_date, args.end_date, args.interval >>
    /\ new_days' = IF how \in {"ok", "no_new_days"} THEN new_days ELSE << >>
    /\ args' = NoArgs
    /\ rerun' = FALSE
    /\ interrupted' = IF how = "crashed"
                      THEN << args.start_date, args.end_date, args.interval >>
                      ELSE NoRun
    /\ recovering' = FALSE
    /\ disk0' = Disk'
    /\ fetched' = {}
    /\ failed' = IF how = "no_new_days" THEN failed
                 ELSE fetched \ { all_products[k][1].group_id : k \in 1..Len(all_products) }
    /\ d' = 0
    /\ processed_days' = {}
    /\ groups_df' = << >>
    /\ processed_products' = {}
    /\ gi' = 0
    /\ all_products' = << >>
    /\ products_df' = << >>
    /\ mi' = 0

\* ------------------------------------------------------ main: parse_args
\* main starts with parsed arguments; build_prices loads processed_days.
StartRun ==
    /\ pc = "idle"
    /\ \E r \in RunRanges, ff \in BOOLEAN :
          /\ args' = [start_date |-> r[1], end_date |-> r[2], interval |-> r[3],
                      full_file |-> ff]
          /\ rerun' = (prev_run = r)
          /\ recovering' = (interrupted = r)
    /\ prev_run' = NoRun
    /\ interrupted' = NoRun
    /\ disk0' = Disk
    /\ pc' = "prices"
    /\ d' = args'.start_date
    /\ processed_days' = Range(processed_days_txt)
    /\ new_days' = << >>
    /\ rollup_op' = "none"
    /\ UNCHANGED << files, dims_locals, mi, raw_written, fetch_io, fetched, crashes,
                    deletions, failed >>

\* ------------------------------------------------------ stage 1: build_prices
\* The harvest of one run is followed for at most this many new days (more than
\* the dates of any range from 1 to MaxDate).
MaxNewDays == MaxDate

InLoop == pc = "prices" /\ d <= args.end_date

NextDate ==
    /\ d' = d + args.interval
    /\ UNCHANGED << files, pc, args, processed_days, new_days, dims_locals, mi,
                    history, raw_written, fetch_io, fetched >>

\* Mutant: no date is skipped.
day_never_skipped(day, processed) == FALSE

\* Whether the loop skips the candidate date as already processed.
day_skipped(day, processed) == day \in processed

\* The date is in the loaded processed_days: skipped.
SkipProcessed ==
    /\ InLoop
    /\ day_skipped(d, processed_days)
    /\ NextDate

\* Mutant: a date without archive is marked processed all the same.
SkipNoArchiveMarks ==
    /\ InLoop
    /\ ~day_skipped(d, processed_days)
    /\ DayKind(d) = "no_archive"
    /\ processed_days_txt' = Append(processed_days_txt, d)
    /\ d' = d + args.interval
    /\ UNCHANGED << processed_products_txt, daily_prices, daily, groups_parquet,
                    products_parquet, full_parquet, pc, args, processed_days,
                    new_days, dims_locals, mi, history, raw_written, fetch_io, fetched >>

\* download_archive returns None (non-200).
SkipNoArchive ==
    /\ InLoop
    /\ ~day_skipped(d, processed_days)
    /\ DayKind(d) = "no_archive"
    /\ NextDate

\* extract_archive returns None (no category directory).
SkipNoCategory ==
    /\ InLoop
    /\ ~day_skipped(d, processed_days)
    /\ DayKind(d) = "no_category"
    /\ NextDate

\* harvest_prices_for_day returns an empty frame.
SkipNoData ==
    /\ InLoop
    /\ ~day_skipped(d, processed_days)
    /\ DayKind(d) \notin {"no_archive", "no_category"}
    /\ harvest_prices_for_day(d) = << >>
    /\ NextDate

\* Mutant: mark_day_processed called before df.to_parquet.
WriteRawMarksFirst ==
    /\ InLoop
    /\ ~day_skipped(d, processed_days)
    /\ DayKind(d) \notin {"no_archive", "no_category"}
    /\ harvest_prices_for_day(d) # << >>
    /\ processed_days_txt' = Append(processed_days_txt, d)
    /\ pc' = "mark"
    /\ UNCHANGED << processed_products_txt, daily_prices, daily, groups_parquet,
                    products_parquet, full_parquet, args, prices_locals,
                    dims_locals, mi, history, raw_written, fetch_io, fetched >>

\* The date is harvested.  First df.to_parquet(out_path): the raw partition of
\* the date is written.
WriteRaw ==
    /\ InLoop
    /\ Len(new_days) < MaxNewDays
    /\ ~day_skipped(d, processed_days)
    /\ DayKind(d) \notin {"no_archive", "no_category"}
    /\ harvest_prices_for_day(d) # << >>
    /\ daily_prices' = (d :> harvest_prices_for_day(d)) @@ daily_prices
    /\ raw_written' = raw_written \cup {d}
    /\ pc' = "mark"
    /\ UNCHANGED << processed_days_txt, processed_products_txt, daily,
                    groups_parquet, products_parquet, full_parquet, args,
                    prices_locals, dims_locals, mi, history, fetched, fetch_io >>

\* Then mark_day_processed, new_days.append, d += step.
MarkDay ==
    /\ pc = "mark"
    /\ processed_days_txt' = Append(processed_days_txt, d)
    /\ new_days' = Append(new_days, d)
    /\ d' = d + args.interval
    /\ pc' = "prices"
    /\ UNCHANGED << processed_products_txt, daily_prices, daily, groups_parquet,
                    products_parquet, full_parquet, args, processed_days,
                    dims_locals, mi, history, raw_written, fetch_io, fetched >>

\* The loop is over with no new day: main returns 0 before the merge.
ReturnNoNewDays ==
    /\ pc = "prices"
    /\ d > args.end_date
    /\ new_days = << >>
    /\ UNCHANGED << files, rollup_op, crashes, deletions, raw_written, fetch_io >>
    /\ EndRun("no_new_days")

\* The loop is over with new days: main goes on to stage 2.
PricesDone ==
    /\ pc = "prices"
    /\ d > args.end_date
    /\ new_days # << >>
    /\ pc' = "dims"
    /\ UNCHANGED << files, args, prices_locals, dims_locals, mi, history,
                    raw_written, fetch_io, fetched >>

\* ------------------------------------- stage 2: build_products_and_groups
\* The groups frame: read from groups.parquet, or fetched and cached; then
\* processed_products is loaded.
LoadGroups ==
    /\ pc = "dims"
    /\ IF groups_parquet.exists
       THEN /\ groups_df' = groups_parquet.rows
            /\ UNCHANGED groups_parquet
       ELSE /\ groups_df' = RemoteGroups
            /\ groups_parquet' = File(RemoteGroups)
    /\ processed_products' = Range(processed_products_txt)
    /\ gi' = 1
    /\ all_products' = << >>
    /\ pc' = "groups"
    /\ UNCHANGED << processed_days_txt, processed_products_txt, daily_prices, daily,
                    products_parquet, full_parquet, args, prices_locals,
                    products_df, mi, history, raw_written, fetch_io, fetched >>

InGroupLoop == pc = "groups" /\ gi <= Len(GroupIds(groups_df))
gid == GroupIds(groups_df)[gi]

\* Mutant: the test of the cache file inverted.
group_skipped_without_cache(g, processed, products_file) ==
    g \in processed /\ ~products_file.exists

\* Mutant: the skip decided on the tracking log alone.
group_skipped_log_only(g, processed, products_file) == g \in processed

\* The skip condition of the group loop.
group_skipped(g, processed, products_file) ==
    g \in processed /\ products_file.exists

NextGroup ==
    /\ gi' = gi + 1
    /\ UNCHANGED << processed_days_txt, daily_prices, daily, groups_parquet,
                    products_parquet, full_parquet, pc, args, prices_locals,
                    groups_df, processed_products, products_df, mi, history,
                    raw_written, fetch_io >>

SkipGroup ==
    /\ InGroupLoop
    /\ group_skipped(gid, processed_products, products_parquet)
    /\ NextGroup
    /\ UNCHANGED << processed_products_txt, all_products, fetched >>

\* The fetch returns rows: they are accumulated and the group is marked.
FetchOk ==
    /\ InGroupLoop
    /\ ~group_skipped(gid, processed_products, products_parquet)
    /\ fetch_products_for_group(gid) # << >>
    /\ all_products' = Append(all_products, fetch_products_for_group(gid))
    /\ processed_products_txt' = Append(processed_products_txt, gid)
    /\ fetched' = fetched \cup {gid}
    /\ NextGroup

\* Mutant: mark_product_processed called outside "if not df.empty".
FetchFailsMarks ==
    /\ InGroupLoop
    /\ ~group_skipped(gid, processed_products, products_parquet)
    /\ fetched' = fetched \cup {gid}
    /\ processed_products_txt' = Append(processed_products_txt, gid)
    /\ NextGroup
    /\ UNCHANGED all_products

\* The fetch returns an empty frame, or raises (caught and logged): nothing is
\* accumulated or marked.
FetchFails ==
    /\ InGroupLoop
    /\ ~group_skipped(gid, processed_products, products_parquet)
    /\ fetched' = fetched \cup {gid}
    /\ NextGroup
    /\ UNCHANGED << processed_products_txt, all_products >>

\* The frames returned to main: both renamed, the products deduplicated.
ReturnDims(products_rows) ==
    /\ groups_df' = rename_groups(groups_df)
    /\ products_df' = drop_duplicates(rename_products(products_rows))
    /\ pc' = "normalize"
    /\ UNCHANGED << processed_days_txt, processed_products_txt, daily_prices, daily,
                    groups_parquet, full_parquet, args, prices_locals,
                    processed_products, gi, all_products, mi, history,
                    raw_written, fetch_io, fetched >>

\* After the loop, new product rows: appended to the prior cache and persisted.
WriteProductsCache ==
    /\ pc = "groups"
    /\ gi > Len(GroupIds(groups_df))
    /\ all_products # << >>
    /\ LET new_products_df == reindex(Concat(all_products),
                                       Columns(Concat(all_products)))
           both == products_parquet.rows \o new_products_df
           rows == IF products_parquet.exists
                   THEN reindex(both, Columns(both))
                   ELSE new_products_df
       IN  /\ products_parquet' = File(rows)
           /\ ReturnDims(rows)

\* After the loop, nothing fetched: the cache is read back, or the frame is empty.
ReadProductsCache ==
    /\ pc = "groups"
    /\ gi > Len(GroupIds(groups_df))
    /\ all_products = << >>
    /\ ReturnDims(IF products_parquet.exists THEN products_parquet.rows ELSE << >>)
    /\ UNCHANGED products_parquet

\* ------------------------------------------------ main: normalize keys
\* products_df["groupid"] on a frame without columns (nothing fetched, no cache)
\* raises KeyError: the run ends with an uncaught exception.
AbortKeyError ==
    /\ pc = "normalize"
    /\ products_df = << >>
    /\ UNCHANGED << files, rollup_op, crashes, deletions, raw_written, fetch_io >>
    /\ EndRun("aborted")

NormalizeKeys ==
    /\ pc = "normalize"
    /\ products_df # << >>
    /\ pc' = "merge"
    /\ mi' = 1
    /\ UNCHANGED << files, args, prices_locals, dims_locals, history, raw_written, fetch_io,
                    fetched >>

\* ------------------------------------------------------- stage 3: merge
\* Mutant: stage 3 merges every raw partition on disk, not the new days only.
MergeDayAllHistory ==
    /\ pc = "merge"
    /\ mi <= Len(new_days)
    /\ daily' = [day \in DOMAIN daily_prices |->
                    merge_day(daily_prices[day], products_df, groups_df)] @@ daily
    /\ mi' = mi + 1
    /\ UNCHANGED << processed_days_txt, processed_products_txt, daily_prices,
                    groups_parquet, products_parquet, full_parquet, pc, args,
                    prices_locals, dims_locals, history, raw_written, fetch_io,
                    fetched >>

\* One new day: its raw partition joined to products and groups, deduplicated,
\* written as the enriched partition.
MergeDay ==
    /\ pc = "merge"
    /\ mi <= Len(new_days)
    /\ LET day == new_days[mi]
       IN  daily' = (day :> merge_day(daily_prices[day], products_df, groups_df)) @@ daily
    /\ mi' = mi + 1
    /\ UNCHANGED << processed_days_txt, processed_products_txt, daily_prices,
                    groups_parquet, products_parquet, full_parquet, pc, args,
                    prices_locals, dims_locals, history, raw_written, fetch_io, fetched >>

MergeDone ==
    /\ pc = "merge"
    /\ mi > Len(new_days)
    /\ pc' = IF args.full_file THEN "full_file" ELSE "prune"
    /\ UNCHANGED << files, args, prices_locals, dims_locals, mi, history,
                    raw_written, fetch_io, fetched >>

\* ------------------------------------------- stage 4: build_full_file
\* build_full_file raises (pd.concat of no frames) when it has to rebuild and
\* there is no partition.
build_full_file_raises(parts, out_file) ==
    ~full_file_up_to_date(parts, out_file) /\ DOMAIN parts = {}

\* The rollup file build_full_file leaves when it returns.
build_full_file(parts, out_file) ==
    IF full_file_up_to_date(parts, out_file) THEN out_file
    ELSE File(read_partitions(parts))

\* What a call of build_full_file did.
build_full_file_op(parts, out_file) ==
    IF full_file_up_to_date(parts, out_file) THEN "build_noop"
    ELSE IF build_full_file_raises(parts, out_file) THEN "build_raises"
    ELSE "build_rewrite"

\* Stage 4 (stage 3 has just written a partition, so a rebuild has one to read).
BuildFullFile ==
    /\ pc = "full_file"
    /\ ~build_full_file_raises(daily, full_parquet)
    /\ full_parquet' = build_full_file(daily, full_parquet)
    /\ rollup_op' = build_full_file_op(daily, full_parquet)
    /\ pc' = "prune"
    /\ UNCHANGED << processed_days_txt, processed_products_txt, daily_prices, daily,
                    groups_parquet, products_parquet, args, prices_locals,
                    dims_locals, mi, prev_run, rerun, interrupted, recovering,
                    disk0, crashes, deletions, failed, raw_written, fetch_io,
                    fetched >>

\* build_full_file called on its own between runs (the rollup's recovery path).
\* When it raises nothing is written.
RebuildFullFile ==
    /\ pc = "idle"
    /\ full_parquet' = IF build_full_file_raises(daily, full_parquet)
                       THEN full_parquet
                       ELSE build_full_file(daily, full_parquet)
    /\ rollup_op' = build_full_file_op(daily, full_parquet)
    /\ UNCHANGED << processed_days_txt, processed_products_txt, daily_prices, daily,
                    groups_parquet, products_parquet, pc, args, prices_locals,
                    dims_locals, mi, prev_run, rerun, interrupted, recovering,
                    crashes, deletions, failed, raw_written, fetch_io,
                    fetched >>
    /\ disk0' = Disk'

\* ------------------------------------ stage 5: prune_old_daily_prices
\* Mutant: the pruning applied to the enriched directory as well.
PruneEnrichedToo ==
    /\ pc = "prune"
    /\ daily_prices' = prune_old_daily_prices(daily_prices, KeepDays)
    /\ daily' = prune_old_daily_prices(daily, KeepDays)
    /\ UNCHANGED << processed_days_txt, processed_products_txt,
                    groups_parquet, products_parquet, full_parquet, rollup_op,
                    crashes, deletions, raw_written, fetch_io >>
    /\ EndRun("ok")

Prune ==
    /\ pc = "prune"
    /\ daily_prices' = prune_old_daily_prices(daily_prices, KeepDays)
    /\ UNCHANGED << processed_days_txt, processed_products_txt, daily,
                    groups_parquet, products_parquet, full_parquet, rollup_op,
                    crashes, deletions, raw_written, fetch_io >>
    /\ EndRun("ok")

\* -------------------------------------------------- append_to_full_file
\* The rollup file append_to_full_file leaves: without a rollup file it calls
\* build_full_file, else it appends the new days' partitions and deduplicates.
append_to_full_file(parts, out_file, days) ==
    IF ~out_file.exists THEN build_full_file(parts, out_file)
    ELSE append_rows(parts, out_file, days)

\* The incremental append, called between runs with the list the last run
\* returned.  When build_full_file raises nothing is written.
AppendToFullFile ==
    /\ pc = "idle"
    /\ full_parquet' =
          IF ~full_parquet.exists /\ build_full_file_raises(daily, full_parquet)
          THEN full_parquet
          ELSE append_to_full_file(daily, full_parquet, new_days)
    /\ rollup_op' =
          IF ~full_parquet.exists THEN build_full_file_op(daily, full_parquet)
          ELSE IF append_rows(daily, full_parquet, new_days) = full_parquet
               THEN "append_nothing" ELSE "append_rows"
    /\ UNCHANGED << processed_days_txt, processed_products_txt, daily_prices, daily,
                    groups_parquet, products_parquet, pc, args, prices_locals,
                    dims_locals, mi, prev_run, rerun, interrupted, recovering,
                    crashes, deletions, failed, raw_written, fetch_io,
                    fetched >>
    /\ disk0' = Disk'

\* ---------------------------------------------------------- interruption
\* The process is killed, or an I/O call raises, between two steps.
Crash ==
    /\ pc # "idle"
    /\ crashes < MaxCrashes
    /\ crashes' = crashes + 1
    /\ UNCHANGED << files, rollup_op, deletions, raw_written, fetch_io >>
    /\ EndRun("crashed")

\* --------------------------------------------------- outside the pipeline
\* products.parquet is deleted between two runs, the tracking logs left alone.
DeleteProductsCache ==
    /\ pc = "idle"
    /\ deletions < MaxDeletions
    /\ products_parquet.exists
    /\ processed_products_txt # << >>
    /\ products_parquet' = Absent
    /\ deletions' = deletions + 1
    /\ UNCHANGED << processed_days_txt, processed_products_txt, daily_prices, daily,
                    groups_parquet, full_parquet, pc, args, prices_locals,
                    dims_locals, mi, prev_run, rerun, interrupted, recovering,
                    rollup_op, crashes, failed, raw_written, fetch_io, fetched >>
    /\ disk0' = Disk'

Next ==
    \/ StartRun
    \/ SkipProcessed \/ SkipNoArchive \/ SkipNoCategory \/ SkipNoData
    \/ WriteRaw \/ MarkDay \/ ReturnNoNewDays \/ PricesDone
    \/ LoadGroups \/ SkipGroup \/ FetchOk \/ FetchFails
    \/ WriteProductsCache \/ ReadProductsCache
    \/ AbortKeyError \/ NormalizeKeys
    \/ MergeDay \/ MergeDone
    \/ BuildFullFile
    \/ Prune
    \/ RebuildFullFile \/ AppendToFullFile
    \/ Crash
    \/ DeleteProductsCache

Spec == Init /\ [][Next]_vars

\* ------------------------------------- fetch_products_for_group on its own
\* The attribute names of the remote, and the extendedData lists of up to
\* MaxExt entries over them; the value of an entry tells its position.
RawNames == { "Attack 1", "Attack 3", "Attack", "HP", "--" }

ExtLists ==
    UNION { { [i \in 1..n |-> [name |-> names[i], value |-> ToString(i)]] :
                names \in [1..n -> RawNames] } : n \in 0..MaxExt }

\* A response with one product, nothing fetched yet.
InitFetch ==
    /\ processed_days_txt = << >>
    /\ processed_products_txt = << >>
    /\ daily_prices = NoPartitions
    /\ daily = NoPartitions
    /\ groups_parquet = Absent
    /\ products_parquet = Absent
    /\ full_parquet = Absent
    /\ pc = "fetch"
    /\ args = NoArgs
    /\ d = 0
    /\ processed_days = {}
    /\ new_days = << >>
    /\ groups_df = << >>
    /\ processed_products = {}
    /\ gi = 0
    /\ all_products = << >>
    /\ products_df = << >>
    /\ mi = 0
    /\ prev_run = NoRun
    /\ rerun = FALSE
    /\ interrupted = NoRun
    /\ recovering = FALSE
    /\ disk0 = Disk
    /\ raw_written = {}
    /\ fetched = {}
    /\ failed = {}
    /\ rollup_op = "none"
    /\ crashes = 0
    /\ deletions = 0
    /\ \E ext \in ExtLists :
          response = << [productId |-> 7, name |-> "Card", url |-> "u",
                         extendedData |-> ext] >>
    /\ df = << >>

\* The call returns the frame of the response.
FetchProducts ==
    /\ pc = "fetch"
    /\ df' = products_frame(response)
    /\ pc' = "fetched"
    /\ UNCHANGED << files, args, prices_locals, dims_locals, mi, history,
                    raw_written, fetched, response >>

NextFetch == FetchProducts

SpecFetch == InitFetch /\ [][NextFetch]_vars

\* ---------------------------------------------------- build_prices on its own
\* The arguments parse_args accepts: --interval is any integer (type=int).
HarvestArgs ==
    { [start_date |-> s, end_date |-> e, interval |-> i, full_file |-> FALSE] :
        s \in {1, 4, 6}, e \in {1, 6}, i \in -1..2 }

\* build_prices is entered with accepted arguments, on a fresh base directory
\* or on the one a run interrupted after marking date 1 has left.
InitHarvest ==
    /\ \E marked \in { {}, {1} } :
          /\ processed_days_txt = SortedAsc(marked)
          /\ daily_prices = [day \in marked |-> harvest_prices_for_day(day)]
          /\ raw_written = marked
          /\ processed_days = marked
    /\ processed_products_txt = << >>
    /\ daily = NoPartitions
    /\ groups_parquet = Absent
    /\ products_parquet = Absent
    /\ full_parquet = Absent
    /\ pc = "prices"
    /\ args \in HarvestArgs
    /\ d = args.start_date
    /\ new_days = << >>
    /\ groups_df = << >>
    /\ processed_products = {}
    /\ gi = 0
    /\ all_products = << >>
    /\ products_df = << >>
    /\ mi = 0
    /\ prev_run = NoRun
    /\ rerun = FALSE
    /\ interrupted = NoRun
    /\ recovering = FALSE
    /\ disk0 = Disk
    /\ fetched = {}
    /\ failed = {}
    /\ rollup_op = "none"
    /\ crashes = 0
    /\ deletions = 0
    /\ response = << >>
    /\ df = << >>

\* The loop of build_prices, up to its return to main.
NextHarvest ==
    \/ SkipProcessed \/ SkipNoArchive \/ SkipNoCategory \/ SkipNoData
    \/ WriteRaw \/ MarkDay \/ ReturnNoNewDays \/ PricesDone

SpecHarvest == InitHarvest /\ [][NextHarvest]_vars

\* ------------------------------------------------------------------ claims
IsPrefix(s, t) == Len(s) <= Len(t) /\ SubSeq(t, 1, Len(s)) = s

Keys(rows) == { Key(rows[i]) : i \in 1..Len(rows) }
UniqueKeys(rows) ==
    \A i, j \in 1..Len(rows) : Key(rows[i]) = Key(rows[j]) => i = j

RollupDates == { full_parquet.rows[i].date : i \in 1..Len(full_parquet.rows) }

\* C1: every date in processed_days.txt has had its raw partition written
\* before, in this run or an earlier one, whatever step a run was interrupted
\* at; and between the write and the mark the date is not yet in the log, so a
\* failure there leaves it unmarked.
C1_MarkedAfterRawWritten ==
    /\ Range(processed_days_txt) \subseteq raw_written
    /\ pc = "mark" => d \in raw_written /\ d \notin Range(processed_days_txt)

\* C1 witness: a run was interrupted between a raw write and its mark, after
\* marking other dates: a written date is unmarked.
C1_Witness ==
    /\ pc = "idle"
    /\ crashes > 0
    /\ processed_days_txt # << >>
    /\ raw_written \ Range(processed_days_txt) # {}

\* C2 (as claimed): every group id in processed_products.txt has its fetched
\* product rows in the persisted products cache.
C2_MarkedGroupsAreCached ==
    \A g \in Range(processed_products_txt) :
        /\ products_parquet.exists
        /\ Range(fetch_products_for_group(g)) \subseteq Range(products_parquet.rows)

\* C3: no two rows of an enriched day partition, and no two rows of the rollup
\* file, share (product_id, date, sub_type_name).
C3_DedupInvariant ==
    /\ \A day \in DOMAIN daily : UniqueKeys(daily[day])
    /\ UniqueKeys(full_parquet.rows)

\* C3 witness: the incremental append has added rows to a rollup, with several
\* enriched partitions on disk and a raw partition that repeats a key.
C3_Witness ==
    /\ rollup_op = "append_rows"
    /\ Cardinality(DOMAIN daily) >= 2
    /\ \E day \in DOMAIN daily_prices : ~UniqueKeys(daily_prices[day])

\* C4: for every new day the merge stage has written, every key of the raw
\* partition is a key of the enriched partition, every enriched row is a raw
\* row with its dimension fields, and a row without a matching product (group)
\* has a null product name (set name).
C4_LeftJoinComplete ==
    pc \in {"merge", "full_file", "prune"} =>
        \A i \in 1..(mi - 1) :
            LET raw == daily_prices[new_days[i]]
                out == daily[new_days[i]]
            IN  /\ Keys(raw) \subseteq Keys(out)
                /\ \A k \in 1..Len(out) :
                      /\ \E j \in 1..Len(raw) :
                            /\ Key(raw[j]) = Key(out[k])
                            /\ raw[j].groupid = out[k].groupid
                            /\ raw[j].price = out[k].price
                      /\ (\A p \in Range(products_df) :
                             ~(p.groupid = out[k].groupid /\ p.product_id = out[k].product_id))
                         => out[k].name = Null
                      /\ (\A g \in Range(groups_df) : g.groupid # out[k].groupid)
                         => out[k].set_name = Null

\* C4 witness: the merge stage has written a day with a row that matches no
\* product and no group, and a row of a known group that matches no product.
C4_Witness ==
    /\ pc = "merge"
    /\ mi > 1
    /\ \E k \in 1..Len(daily[new_days[1]]) :
          LET row == daily[new_days[1]][k]
          IN  row.name = Null /\ row.set_name = Null
    /\ \E k \in 1..Len(daily[new_days[1]]) :
          LET row == daily[new_days[1]][k]
          IN  row.name = Null /\ row.set_name # Null

\* C5: when a run that repeats the range and interval of the run before it
\* (which ran to its end) ends, every persisted artifact is as that run found
\* it, that is as the first run left it.
C5_RerunIdempotent ==
    [][ (rerun /\ pc # "idle" /\ pc' = "idle" /\ crashes' = crashes)
            => Disk' = disk0 ]_vars

\* C5 witness: a second run over the same range has gone through its harvest
\* loop, the first having left marked days, partitions and a rollup.
C5_Witness ==
    /\ rerun
    /\ pc = "prices"
    /\ d > args.end_date
    /\ Cardinality(processed_days) >= 2
    /\ DOMAIN daily # {}
    /\ full_parquet.exists

\* C6: the tracking logs are only appended to; a date in processed_days.txt when
\* a run starts is not harvested by that run; a group in processed_products.txt
\* when a run starts is fetched by it only if there is no products cache file.
C6_TrackingMonotone ==
    [][ /\ IsPrefix(processed_days_txt, processed_days_txt')
        /\ IsPrefix(processed_products_txt, processed_products_txt')
        /\ (pc = "prices" /\ pc' = "mark")
              => d \notin Range(disk0.processed_days_txt)
        /\ \A g \in fetched' \ fetched :
              g \in Range(disk0.processed_products_txt) => ~products_parquet.exists
      ]_vars

\* C6 witness: a run has skipped processed dates and fetched again a group that
\* was already marked (the cache file being missing).
C6_Witness ==
    /\ processed_days # {}
    /\ \E g \in fetched : g \in Range(disk0.processed_products_txt)

\* C7: after build_full_file has returned (no-op or rewrite), the dates of the
\* rollup's rows are the dates of the enriched partitions on disk.
C7_RollupConsistent ==
    rollup_op \in {"build_noop", "build_rewrite"} =>
        /\ full_parquet.exists
        /\ RollupDates = DOMAIN daily

\* C7 witness: build_full_file took its no-op path over several partitions.
C7_Witness ==
    /\ rollup_op = "build_noop"
    /\ Cardinality(DOMAIN daily) >= 2

\* C8: the pruning step leaves min(KeepDays, n) raw partitions of the n there
\* were, unchanged, every one of them later than every deleted one.
C8_RetentionBound ==
    [][ (pc = "prune" /\ pc' = "idle" /\ crashes' = crashes) =>
            LET before == DOMAIN daily_prices
                after  == DOMAIN daily_prices'
            IN  /\ after \subseteq before
                /\ Cardinality(after) <= KeepDays
                /\ Cardinality(after) = Min(KeepDays, Cardinality(before))
                /\ \A x \in after, y \in before \ after : y < x
                /\ \A x \in after : daily_prices'[x] = daily_prices[x]
      ]_vars

\* C8 witness: a pruning has deleted partitions and left KeepDays of them.
C8_Witness ==
    /\ pc = "idle"
    /\ Cardinality(DOMAIN daily_prices) = KeepDays
    /\ Cardinality(raw_written) > KeepDays

\* C9 (as claimed): a raw partition is removed only if the enriched partition of
\* its date exists; no enriched partition and no rollup file is ever removed.
C9_RawDeletedOnlyOnceEnriched ==
    [][ /\ \A day \in DOMAIN daily_prices \ DOMAIN daily_prices' :
              day \in DOMAIN daily
        /\ DOMAIN daily \subseteq DOMAIN daily'
        /\ full_parquet.exists => full_parquet'.exists
      ]_vars

\* C10 (as claimed): a run that is not interrupted and has new days goes from
\* stage 2 on to the merge stage whatever groups failed, and leaves the merge
\* stage with an enriched partition for every new day.
C10_FailuresNeverAbort ==
    [][ crashes' = crashes =>
          /\ pc = "normalize" => pc' = "merge"
          /\ (pc = "merge" /\ pc' # "merge") => Range(new_days) \subseteq DOMAIN daily
      ]_vars

\* C11: a candidate date whose archive is missing, whose archive has no
\* category directory, or whose files give no valid row, is passed over: the
\* step writes no raw partition, appends nothing to processed_days.txt or to
\* new_days, and goes on to the next candidate date; so no such date is ever
\* marked or has a raw partition.
C11_NotFoundSkippedUnmarked ==
    [][ /\ (InLoop /\ d \notin processed_days /\ DayKind(d) # "ok"
              /\ crashes' = crashes)
            => /\ daily_prices' = daily_prices
               /\ processed_days_txt' = processed_days_txt
               /\ new_days' = new_days
               /\ pc' = "prices"
               /\ d' = d + args.interval
        /\ \A day \in Range(processed_days_txt') \cup DOMAIN daily_prices' :
              DayKind(day) = "ok"
      ]_vars

\* C11 witness: a daily run has passed a date of each not-found kind and has
\* harvested the dates between them.
C11_Witness ==
    /\ pc = "prices"
    /\ d = 7
    /\ new_days = << 1, 3, 5 >>
    /\ DOMAIN daily_prices = {1, 3, 5}
    /\ processed_days_txt = << 1, 3, 5 >>

\* C12: a call of append_to_full_file with the new days of the last run, when a
\* rollup file exists, leaves the keep-first deduplication on the key of the old
\* rows followed by the rows of the new days' enriched partitions: the old rows
\* are its prefix, its keys are the old and the new keys, and it has as many
\* rows more as there are new keys.  Without a rollup file it leaves what a
\* full rebuild leaves: the rows of every enriched partition.
C12_AppendIsDedupOfConcat ==
    [][ (pc = "idle" /\ pc' = "idle") =>
          LET old   == full_parquet.rows
              there == SelectSeq(new_days, LAMBDA x : x \in DOMAIN daily)
              new   == Concat([k \in 1..Len(there) |-> daily[there[k]]])
              out   == full_parquet'.rows
          IN  /\ (rollup_op' \in {"append_nothing", "append_rows"}) =>
                    /\ full_parquet.exists /\ full_parquet'.exists
                    /\ IsPrefix(old, out)
                    /\ Keys(out) = Keys(old) \cup Keys(new)
                    /\ Len(out) = Len(old) + Cardinality(Keys(new) \ Keys(old))
                    /\ UniqueKeys(out)
                    /\ \A k \in (Len(old) + 1)..Len(out) : out[k] \in Range(new)
              /\ (~full_parquet.exists /\ rollup_op' = "build_rewrite") =>
                    full_parquet' = File(read_partitions(daily))
      ]_vars

\* C12 witness: the append has added the rows of the last run's new days to a
\* rollup that held the rows of earlier dates.
C12_Witness ==
    /\ rollup_op = "append_rows"
    /\ new_days # << >>
    /\ Range(new_days) \subseteq RollupDates
    /\ RollupDates \ Range(new_days) # {}
    /\ Len(full_parquet.rows) > Cardinality(RollupDates)

\* The entries of a product's extendedData whose normalized name starts with
\* "attack", in list order.
Attacks(prod) ==
    SelectSeq(prod.extendedData, LAMBDA e : startswith_attack(to_snake(e.name)))

\* The value a row has in a column (null when the frame has no such column).
Cell(row, c) == IF c \in DOMAIN row THEN row[c] ELSE Null

\* C13: the row fetch_products_for_group returns for a product has attack_1 and
\* attack_2 set to the values of the first and second attack entries in list
\* order (only attack_1 with one, neither with none), has no other attack
\* column, and has no value of a third or later attack entry.
C13_AttackCapping ==
    pc = "fetched" =>
        LET attacks == Attacks(response[1])
            n       == Len(attacks)
            row     == df[1]
        IN  /\ Len(df) = 1
            /\ Cell(row, "attack_1") = IF n >= 1 THEN attacks[1].value ELSE Null
            /\ Cell(row, "attack_2") = IF n >= 2 THEN attacks[2].value ELSE Null
            /\ \A c \in DOMAIN row :
                  startswith_attack(c) => c \in {"attack_1", "attack_2"}
            /\ \A k \in 3..n :
                  \A c \in DOMAIN row \ { to_snake(f) : f \in DOMAIN response[1] } :
                      row[c] # attacks[k].value

\* C13 witness: a product with three attack entries, the first of them named
\* "Attack 3", after an entry that is no attack.
C13_Witness ==
    /\ pc = "fetched"
    /\ Len(Attacks(response[1])) = 3
    /\ response[1].extendedData[1].name = "HP"
    /\ response[1].extendedData[2].name = "Attack 3"
    /\ df[1].attack_1 = "2"
    /\ df[1].attack_2 = "3"

\* C14 (as claimed): when a run that repeats the range and interval of the
\* interrupted run before it returns 0, every date in processed_days.txt has an
\* enriched day partition.
C14_RecoveryEnrichesMarkedDates ==
    [][ (recovering /\ pc \in {"prices", "prune"} /\ pc' = "idle"
            /\ crashes' = crashes)
          => Range(processed_days_txt') \subseteq DOMAIN daily' ]_vars

\* A step of the group loop in which a fetch was made and gave no rows.
FetchFailed ==
    InGroupLoop /\ fetched' # fetched /\ all_products' = all_products
        /\ crashes' = crashes

\* C15 (as claimed): a failed fetch appends nothing to processed_products.txt
\* and the loop goes on to the next group; and when the next run ends, it has
\* fetched every group whose fetch failed in the run before.
C15_FailedFetchRetriedNextRun ==
    [][ /\ FetchFailed =>
              /\ processed_products_txt' = processed_products_txt
              /\ pc' = "groups" /\ gi' = gi + 1
        /\ (pc # "idle" /\ pc' = "idle" /\ crashes' = crashes) =>
              \A g \in failed : g \in fetched
      ]_vars

\* C15 (amended): a failed fetch appends nothing to processed_products.txt and
\* the loop goes on to the next group; a run that finds no new day fetches
\* nothing; the next run that gets through the group loop has fetched every
\* group whose fetch failed and that is not in processed_products.txt.
C15_FailedFetchRetried ==
    [][ /\ FetchFailed =>
              /\ processed_products_txt' = processed_products_txt
              /\ pc' = "groups" /\ gi' = gi + 1
        /\ (pc = "prices" /\ pc' = "idle" /\ crashes' = crashes) =>
              fetched = {} /\ failed' = failed
        /\ (pc = "groups" /\ pc' = "normalize") =>
              \A g \in failed : g \notin processed_products => g \in fetched
      ]_vars

\* C15 witness: a run has gone through the group loop and has fetched a group
\* that is not marked and whose fetch failed in an earlier run.
C15_Witness ==
    /\ pc = "normalize"
    /\ \E g \in failed : g \notin processed_products /\ g \in fetched
    /\ products_parquet.exists

\* C16: a step writes an enriched partition only in the merge stage and only
\* for a date of the run's new_days, and removes none; a run that returns after
\* the pipeline has written the enriched partition of every date of new_days
\* and has left every other one as it found it; a run with no new day leaves
\* the enriched partitions as it found them.
C16_MergeTouchesOnlyNewDays ==
    [][ /\ DOMAIN daily \subseteq DOMAIN daily'
        /\ \A day \in DOMAIN daily' :
              (day \notin DOMAIN daily \/ daily'[day] # daily[day])
                  => pc = "merge" /\ day \in Range(new_days)
        /\ (pc = "prune" /\ pc' = "idle" /\ crashes' = crashes) =>
              /\ \A day \in Range(new_days) :
                    /\ day \notin DOMAIN disk0.daily
                    /\ day \in DOMAIN daily'
                    /\ daily'[day] = merge_day(daily_prices[day], products_df, groups_df)
              /\ \A day \in DOMAIN daily' \ Range(new_days) :
                    /\ day \in DOMAIN disk0.daily
                    /\ daily'[day] = disk0.daily[day]
        /\ (pc = "prices" /\ pc' = "idle" /\ crashes' = crashes) =>
              new_days = << >> /\ daily' = disk0.daily
      ]_vars

\* C16 witness: the merge stage of a run is over, with enriched partitions of
\* earlier runs on disk, and raw partitions that are not of this run's new days.
C16_Witness ==
    /\ pc = "prune"
    /\ new_days # << >>
    /\ Range(new_days) \subseteq DOMAIN daily
    /\ DOMAIN daily \ Range(new_days) # {}
    /\ DOMAIN daily_prices \ Range(new_days) # {}

\* C17: the pruning step leaves the enriched partitions, the rollup file, the
\* groups and products caches and both tracking logs as they were.
C17_PruneFrame ==
    [][ (pc = "prune" /\ pc' = "idle" /\ crashes' = crashes) =>
            /\ daily' = daily
            /\ full_parquet' = full_parquet
            /\ groups_parquet' = groups_parquet
            /\ products_parquet' = products_parquet
            /\ processed_days_txt' = processed_days_txt
            /\ processed_products_txt' = processed_products_txt
      ]_vars

\* C17 witness: a pruning has deleted a raw partition, with more than KeepDays
\* enriched partitions on disk and a rollup of them.
C17_Witness ==
    /\ pc = "idle"
    /\ rollup_op = "build_rewrite"
    /\ Cardinality(DOMAIN daily) > KeepDays
    /\ Cardinality(DOMAIN daily_prices) = KeepDays
    /\ RollupDates = DOMAIN daily

\* C18 (as claimed): the persisted products cache never holds the same row twice.
C18_ProductsCacheDeduplicated ==
    products_parquet.exists =>
        \A i, j \in 1..Len(products_parquet.rows) :
            products_parquet.rows[i] = products_parquet.rows[j] => i = j

\* C19 (as claimed): once the products cache file has been deleted, no group
\* that processed_products.txt lists when a run starts is fetched by that run.
C19_ListedGroupsNeverRefetched ==
    [][ deletions > 0 =>
            \A g \in fetched' \ fetched : g \notin Range(disk0.processed_products_txt)
      ]_vars

\* C19 (amended): a run that starts without a products cache file and gets
\* through the group loop has fetched every group of the groups table, the ones
\* processed_products.txt lists included; and a listed group is fetched only
\* when there is no cache file.
C19_ListedGroupsRefetchedWithoutCache ==
    [][ /\ (pc = "groups" /\ pc' = "normalize" /\ ~disk0.products_parquet.exists) =>
              \A g \in Range(GroupIds(groups_df)) : g \in fetched
        /\ \A g \in fetched' \ fetched :
              g \in processed_products => ~products_parquet.exists
      ]_vars

\* C19 witness: after a deletion of the cache file, a run has fetched again
\* every group the log listed.
C19_Witness ==
    /\ pc = "normalize"
    /\ deletions > 0
    /\ ~disk0.products_parquet.exists
    /\ Cardinality(processed_products) >= 2
    /\ processed_products \subseteq fetched

\* C20 (as claimed): when a run started with --full-file returns 0 and there
\* are enriched partitions on disk, the rollup file exists and the dates of its
\* rows are the dates of the enriched partitions.
C20_RollupCurrentAfterRollupRun ==
    [][ (args.full_file /\ pc \in {"prices", "prune"} /\ pc' = "idle"
            /\ crashes' = crashes /\ DOMAIN daily' # {})
          => /\ full_parquet'.exists
             /\ { full_parquet'.rows[i].date : i \in 1..Len(full_parquet'.rows) }
                    = DOMAIN daily'
      ]_vars

\* C21 (as claimed): every iteration of the loop of build_prices moves the
\* candidate date strictly forward (so the loop ends, each date visited at most
\* once, in ascending order), and new_days is strictly ascending.
C21_HarvestLoopAdvances ==
    [][ /\ (pc \in {"prices", "mark"} /\ pc' = "prices") => d' > d
        /\ \A i, j \in 1..Len(new_days') : i < j => new_days'[i] < new_days'[j]
      ]_vars

====
